---- MODULE Spec2Model ----
(***************************************************************************)
(* Model of the timing core of rusty_chess_clock: the Clock primitive      *)
(* (src/src/clock.rs) and the ChessClock composite                         *)
(* (src/src/chess_clock.rs).                                               *)
(*                                                                         *)
(* Durations and instants are natural numbers of ticks; one second is      *)
(* TicksPerSec ticks, so sub-second remaining times exist in the model.    *)
(* Every method call is one action taken at the instant `now`; the wall    *)
(* clock advances only in Tick and ClockTick.                              *)
(*                                                                         *)
(* Spec is a driver of a ChessClock; ClockSpec is a driver of one Clock    *)
(* used on its own, as the clock CLI does.  StatusSpec and DisplaySpec     *)
(* apply ChessClock::status and the Display of a duration to inputs drawn  *)
(* from their whole (scaled) range; CliSpec is the loop of the clock CLI.  *)
(***************************************************************************)
EXTENDS Integers, FiniteSets, Sequences

(***************************************************************************)
(* Bounds of the model.                                                    *)
(***************************************************************************)
\* ticks per second: the resolution of a Duration in the model
TicksPerSec == 2
\* largest initial time of a player in Rules, in ticks
MaxTime == 3
\* largest increment in Rules, in ticks
MaxInc == 2
\* the wall clock stops advancing at this instant
MaxNow == 3
\* switch_player is not taken when it would bank more than this many ticks
MaxBank == 4

\* Duration::MAX, the value saturating_add saturates at (far above every
\* duration the bounded model reaches)
DurationMax == 2147483647

VARIABLES
    clocks,         \* ChessClock.clocks: [Clock; 2], indexed 0 and 1
    state,          \* ChessClock.state: the active player
    rules,          \* ChessClock.rules
    now,            \* the wall clock, Instant::now()
    op,             \* history: the last operation performed
    pre,            \* history: clocks, state, now, turn_used before that operation
    turn_used,      \* history: time the active player's clock ran since they became active
    finish_called,  \* history: finish() has been called
    clock,          \* ClockSpec: the Clock used on its own
    clock_pre,      \* ClockSpec history: the Clock before the last operation
    clock_ghost,    \* ClockSpec history: what has been called since new and since start
    arg,            \* DisplaySpec: the duration handed to Display, in milliseconds
    ret             \* StatusSpec, DisplaySpec: what the last call returned

vars == <<clocks, state, rules, now, op, pre, turn_used, finish_called,
          clock, clock_pre, clock_ghost, arg, ret>>

\* the variables of the ChessClock and of its history, untouched by ClockSpec
chess_vars == <<clocks, state, rules, pre, turn_used, finish_called>>

\* the variables of the Clock used on its own, untouched by Spec
clock_vars == <<clock, clock_pre, clock_ghost>>

\* the input and the result of a function applied on its own, untouched by
\* Spec and ClockSpec
call_vars == <<arg, ret>>

Min(a, b) == IF a <= b THEN a ELSE b

(***************************************************************************)
(* std::time::Duration arithmetic used by the code.                        *)
(***************************************************************************)
saturating_sub(a, b) == IF a > b THEN a - b ELSE 0

saturating_add(a, b) == IF a > DurationMax - b THEN DurationMax ELSE a + b

\* Duration::as_secs: the whole seconds of a duration, truncating
as_secs(d) == d \div TicksPerSec

(***************************************************************************)
(* chess_clock.rs: State (the player), its index and other().              *)
(***************************************************************************)
Player1 == "Player1"
Player2 == "Player2"
Players == {Player1, Player2}

index(p) == IF p = Player1 THEN 0 ELSE 1

other(p) == IF p = Player1 THEN Player2 ELSE Player1

Fischer == "Fischer"
Bronstein == "Bronstein"

(***************************************************************************)
(* clock.rs: ClockState, ClockMode and Clock.                              *)
(* ClockState::Running carries the start instant; the other two variants   *)
(* carry nothing, which the model writes as start = 0.                     *)
(***************************************************************************)
Running(start) == [tag |-> "Running", start |-> start]
Stopped == [tag |-> "Stopped", start |-> 0]
Finished == [tag |-> "Finished", start |-> 0]

IsRunning(c) == c.state.tag = "Running"

CountUp == "CountUp"
CountDown == "CountDown"

\* Option<Duration>: None, Some(d) and unwrap_or
None == {}

Some(d) == {d}

unwrap_or(o, default) == IF o = None THEN default ELSE CHOOSE d \in o : TRUE

\* clock.rs: const TEN_MINUTES
TEN_MINUTES == 60 * 10 * TicksPerSec

\* Clock::new
Clock_new(mode, start) ==
    LET elapsed == IF start # None THEN unwrap_or(start, 0)
                   ELSE IF mode = CountUp THEN 0
                   ELSE TEN_MINUTES
    IN  [already_elapsed |-> elapsed, state |-> Stopped, mode |-> mode]

\* a read() whose CountDown arm adds the elapsed time as the CountUp arm does
Clock_read_counts_up(c, t) ==
    IF IsRunning(c) THEN c.already_elapsed + (t - c.state.start)
    ELSE c.already_elapsed

\* Clock::read at instant t
Clock_read(c, t) ==
    IF IsRunning(c) /\ c.mode = CountUp
    THEN c.already_elapsed + (t - c.state.start)
    ELSE IF IsRunning(c) /\ c.mode = CountDown
    THEN saturating_sub(c.already_elapsed, t - c.state.start)
    ELSE c.already_elapsed

\* Clock::read_running at instant t
Clock_read_running(c, t) ==
    IF IsRunning(c) THEN t - c.state.start ELSE 0

\* a read_and_update() that never normalises the state
Clock_read_and_update_keeps_running(c, t) == c

\* a read_and_update() that stops a CountDown clock with less than a whole
\* second left
Clock_read_and_update_stops_early(c, t) ==
    IF IsRunning(c) /\ c.mode = CountDown /\ as_secs(Clock_read(c, t)) = 0
    THEN [c EXCEPT !.already_elapsed = 0, !.state = Stopped]
    ELSE c

\* Clock::read_and_update at instant t: the clock afterwards
Clock_read_and_update(c, t) ==
    LET time == Clock_read(c, t)
        is_running == IsRunning(c)
        is_countdown == c.mode = CountDown
        is_zero == time = 0
    IN  IF is_running /\ is_countdown /\ is_zero
        THEN [c EXCEPT !.already_elapsed = 0, !.state = Stopped]
        ELSE c

\* a start() that also starts a Finished clock
Clock_start_unless_running(c, t) ==
    IF ~IsRunning(c) THEN [c EXCEPT !.state = Running(t)] ELSE c

\* a start() that restarts a running clock at the current instant
Clock_start_restarts(c, t) ==
    IF c.state = Stopped \/ IsRunning(c) THEN [c EXCEPT !.state = Running(t)]
    ELSE c

\* Clock::start at instant t
Clock_start(c, t) ==
    IF c.state = Stopped THEN [c EXCEPT !.state = Running(t)] ELSE c

\* a stop() that leaves a running clock running
Clock_stop_keeps_running(c, t) == c

\* a stop() that stops the clock without banking the reading
Clock_stop_without_banking(c, t) ==
    IF IsRunning(c) THEN [c EXCEPT !.state = Stopped] ELSE c

\* Clock::stop at instant t
Clock_stop(c, t) ==
    IF IsRunning(c)
    THEN [c EXCEPT !.already_elapsed = Clock_read(c, t), !.state = Stopped]
    ELSE c

\* an add() that does nothing on a Finished clock
Clock_add_unless_finished(c, time) ==
    IF c.state = Finished THEN c
    ELSE [c EXCEPT !.already_elapsed = saturating_add(c.already_elapsed, time)]

\* Clock::add
Clock_add(c, time) ==
    [c EXCEPT !.already_elapsed = saturating_add(c.already_elapsed, time)]


\* Clock::state_and_update at instant t: the clock afterwards
Clock_state_and_update(c, t) == Clock_read_and_update(c, t)

\* Clock::reset
Clock_reset(c, start) ==
    [c EXCEPT !.already_elapsed = unwrap_or(start, 0), !.state = Stopped]

\* Clock::zero
Clock_zero(c) == Clock_reset(c, Some(0))

\* a subtract() that re-bases and restarts the clock in every state
Clock_subtract_always_rebases(c, time, t) ==
    LET total_time == Clock_read(c, t)
        rebased == Clock_reset(c, Some(saturating_sub(total_time, time)))
    IN  IF rebased.already_elapsed > 0
        THEN [rebased EXCEPT !.state = Running(t)]
        ELSE rebased

\* a subtract() that re-bases a running clock and leaves it stopped
Clock_subtract_never_restarts(c, time, t) ==
    IF IsRunning(c)
    THEN Clock_reset(c, Some(saturating_sub(Clock_read(c, t), time)))
    ELSE [c EXCEPT !.already_elapsed = saturating_sub(c.already_elapsed, time)]

\* Clock::subtract at instant t
Clock_subtract(c, time, t) ==
    IF IsRunning(c)
    THEN LET total_time == Clock_read(c, t)
             rebased == Clock_reset(c, Some(saturating_sub(total_time, time)))
         IN  IF rebased.already_elapsed > 0 THEN Clock_start(rebased, t)
             ELSE rebased
    ELSE [c EXCEPT !.already_elapsed = saturating_sub(c.already_elapsed, time)]

\* a finish() that only stops the clock
Clock_finish_only_stops(c, t) == Clock_stop(c, t)

\* a finish() that sets the state without stopping the clock first
Clock_finish_without_stop(c, t) == [c EXCEPT !.state = Finished]

\* Clock::finish at instant t
Clock_finish(c, t) ==
    [Clock_stop(c, t) EXCEPT !.state = Finished]

(***************************************************************************)
(* chess_clock.rs: ChessClock.  The operations are written as operators    *)
(* from (clocks, state) at an instant to the (clocks, state) afterwards.   *)
(***************************************************************************)
\* a new() that starts the starter's clock at once
ChessClock_new_starts_starter(r) ==
    [clocks |-> [i \in {0, 1} |->
                    IF i = index(r.starter)
                    THEN Clock_start(Clock_new(CountDown,
                             Some(IF i = 0 THEN r.player1_time
                                           ELSE r.player2_time)), 0)
                    ELSE Clock_new(CountDown,
                             Some(IF i = 0 THEN r.player1_time
                                           ELSE r.player2_time))],
     state |-> r.starter]

\* ChessClock::new
ChessClock_new(r) ==
    [clocks |-> [i \in {0, 1} |->
                    IF i = 0 THEN Clock_new(CountDown, Some(r.player1_time))
                             ELSE Clock_new(CountDown, Some(r.player2_time))],
     state |-> r.starter]

\* ChessClock::read: the pair, as a function of the player's index
ChessClock_read(cs, t) == [i \in {0, 1} |-> Clock_read(cs[i], t)]

\* an update() that normalises nothing
ChessClock_update_skipped(cs, t) == cs

\* ChessClock::update
ChessClock_update(cs, t) == [i \in {0, 1} |-> Clock_read_and_update(cs[i], t)]

\* a status() that looks at the clocks' states only, not at the times
ChessClock_status_by_state(cs, t) ==
    LET s1 == cs[index(Player1)].state
        s2 == cs[index(Player2)].state
    IN  IF s1 = Finished /\ s2 = Finished THEN "Finished"
        ELSE IF s1 = Stopped /\ s2 = Stopped THEN "Stopped"
        ELSE "Running"

\* ChessClock::status
ChessClock_status(cs, t) ==
    LET t1 == Clock_read(cs[index(Player1)], t)
        t2 == Clock_read(cs[index(Player2)], t)
        s1 == cs[index(Player1)].state
        s2 == cs[index(Player2)].state
    IN  IF as_secs(t1) * as_secs(t2) = 0 THEN "Finished"
        ELSE IF s1 = Finished /\ s2 = Finished THEN "Finished"
        ELSE IF s1 = Stopped /\ s2 = Stopped THEN "Stopped"
        ELSE "Running"

\* the width of u64 in bits, scaled down to the model's range
U64Bits == 3

\* 2^64, scaled: as_secs() is below it
U64Modulus == 2 ^ U64Bits

\* `a * b` on u64: the product when it fits; when it does not, a panic in a
\* build with overflow checks (the dev profile) and the wrapped product in a
\* build without them (the release profile)
u64_mul(a, b) ==
    IF a * b < U64Modulus
    THEN {[panic |-> FALSE, value |-> a * b]}
    ELSE {[panic |-> TRUE, value |-> 0],
          [panic |-> FALSE, value |-> (a * b) % U64Modulus]}

\* ChessClock::status with the product in u64: what the call can do,
\* "panic" or the Status returned
ChessClock_status_u64(cs, t) ==
    LET t1 == Clock_read(cs[index(Player1)], t)
        t2 == Clock_read(cs[index(Player2)], t)
        s1 == cs[index(Player1)].state
        s2 == cs[index(Player2)].state
    IN  {IF m.panic THEN "panic"
         ELSE IF m.value = 0 THEN "Finished"
         ELSE IF s1 = Finished /\ s2 = Finished THEN "Finished"
         ELSE IF s1 = Stopped /\ s2 = Stopped THEN "Stopped"
         ELSE "Running" : m \in u64_mul(as_secs(t1), as_secs(t2))}

\* a start() that starts both players' clocks
ChessClock_start_both(cs, st, t) == [i \in {0, 1} |-> Clock_start(cs[i], t)]

\* a start() that starts the inactive player's clock
ChessClock_start_other(cs, st, t) ==
    [cs EXCEPT ![index(other(st))] = Clock_start(cs[index(other(st))], t)]

\* ChessClock::start (start_current)
ChessClock_start(cs, st, t) ==
    [cs EXCEPT ![index(st)] = Clock_start(cs[index(st)], t)]

\* ChessClock::stop
ChessClock_stop(cs, st, t) ==
    [cs EXCEPT ![index(st)] = Clock_stop(cs[index(st)], t)]

\* a finish() that finishes the running clock only
ChessClock_finish_running(cs, t) ==
    [i \in {0, 1} |-> IF IsRunning(cs[i]) THEN Clock_finish(cs[i], t) ELSE cs[i]]

\* ChessClock::finish
ChessClock_finish(cs, t) == [i \in {0, 1} |-> Clock_finish(cs[i], t)]

\* a Bronstein rule that is not capped by the time used
increment_added_uncapped(method, running_time, increment) == increment

\* a Fischer rule that is capped like Bronstein's
increment_added_capped(method, running_time, increment) ==
    Min(running_time, increment)

\* a Bronstein rule that takes the larger of the two instead of the smaller
increment_added_max(method, running_time, increment) ==
    IF method = Fischer THEN increment
    ELSE IF running_time >= increment THEN running_time ELSE increment

\* a rule that adds twice the increment of the timing method
increment_added_doubled(method, running_time, increment) ==
    IF method = Fischer THEN 2 * increment
    ELSE 2 * Min(running_time, increment)

\* the match on the timing method in switch_player: the time added to the
\* outgoing player's clock
increment_added(method, running_time, increment) ==
    IF method = Fischer THEN increment ELSE Min(running_time, increment)

\* a switch_player that hands the clock over without flipping the active player
ChessClock_switch_player_no_flip(cs, st, r, t) ==
    LET updated == ChessClock_update(cs, t)
        current == st
        new == other(current)
        current_status == updated[index(current)].state
    IN  IF current_status.tag = "Running"
        THEN LET running_time == Clock_read_running(updated[index(current)], t)
                 stopped == Clock_stop(updated[index(current)], t)
                 added == Clock_add(stopped,
                              increment_added(r.timing_method, running_time,
                                              r.increment))
             IN  [clocks |-> [updated EXCEPT
                                 ![index(current)] = added,
                                 ![index(new)] = Clock_start(updated[index(new)], t)],
                  state |-> current]
        ELSE IF current_status = Finished
        THEN [clocks |-> updated, state |-> current]
        ELSE [clocks |-> updated, state |-> new]

\* a switch_player that starts the incoming clock also when the outgoing
\* one was stopped
ChessClock_switch_player_always_starts(cs, st, r, t) ==
    LET updated == ChessClock_update(cs, t)
        current == st
        new == other(current)
        current_status == updated[index(current)].state
    IN  IF current_status.tag = "Running"
        THEN LET running_time == Clock_read_running(updated[index(current)], t)
                 stopped == Clock_stop(updated[index(current)], t)
                 added == Clock_add(stopped,
                              increment_added(r.timing_method, running_time,
                                              r.increment))
             IN  [clocks |-> [updated EXCEPT
                                 ![index(current)] = added,
                                 ![index(new)] = Clock_start(updated[index(new)], t)],
                  state |-> new]
        ELSE IF current_status = Finished
        THEN [clocks |-> updated, state |-> current]
        ELSE [clocks |-> [updated EXCEPT
                             ![index(new)] = Clock_start(updated[index(new)], t)],
              state |-> new]

\* a switch_player that adds the increment without stopping the outgoing clock
ChessClock_switch_player_no_stop(cs, st, r, t) ==
    LET updated == ChessClock_update(cs, t)
        current == st
        new == other(current)
        current_status == updated[index(current)].state
    IN  IF current_status.tag = "Running"
        THEN LET running_time == Clock_read_running(updated[index(current)], t)
                 added == Clock_add(updated[index(current)],
                              increment_added(r.timing_method, running_time,
                                              r.increment))
             IN  [clocks |-> [updated EXCEPT
                                 ![index(current)] = added,
                                 ![index(new)] = Clock_start(updated[index(new)], t)],
                  state |-> new]
        ELSE IF current_status = Finished
        THEN [clocks |-> updated, state |-> current]
        ELSE [clocks |-> updated, state |-> new]

\* ChessClock::switch_player
ChessClock_switch_player(cs, st, r, t) ==
    LET updated == ChessClock_update(cs, t)
        current == st
        new == other(current)
        current_status == updated[index(current)].state
    IN  IF current_status.tag = "Running"
        THEN LET running_time == Clock_read_running(updated[index(current)], t)
                 stopped == Clock_stop(updated[index(current)], t)
                 added == Clock_add(stopped,
                              increment_added(r.timing_method, running_time,
                                              r.increment))
             IN  [clocks |-> [updated EXCEPT
                                 ![index(current)] = added,
                                 ![index(new)] = Clock_start(updated[index(new)], t)],
                  state |-> new]
        ELSE IF current_status = Finished
        THEN [clocks |-> updated, state |-> current]
        ELSE [clocks |-> updated, state |-> new]

(***************************************************************************)
(* The state machine: a driver calling the ChessClock's methods in any     *)
(* order while the wall clock advances.                                    *)
(***************************************************************************)
RulesSet ==
    [player1_time : 1..MaxTime, player2_time : 1..MaxTime,
     increment : 0..MaxInc, starter : Players,
     timing_method : {Fischer, Bronstein}]

\* the history of a Clock on which nothing has been called
NoGhost == [finished |-> FALSE, reset_since |-> FALSE,
            clean |-> FALSE, t0 |-> 0, R |-> 0, time |-> 0]

\* no function has been applied on its own
NoCall == <<>>

Snapshot == [clocks |-> clocks, state |-> state, now |-> now,
             turn_used |-> turn_used]

\* the history variables after an operation named o that leads to active player st
History(o, st) ==
    /\ op' = o
    /\ pre' = Snapshot
    /\ turn_used' = IF st = state THEN turn_used ELSE 0

Init ==
    /\ rules \in RulesSet
    /\ clocks = ChessClock_new(rules).clocks
    /\ state = ChessClock_new(rules).state
    /\ now = 0
    /\ op = "new"
    /\ pre = [clocks |-> clocks, state |-> state, now |-> 0, turn_used |-> 0]
    /\ turn_used = 0
    /\ finish_called = FALSE
    /\ clock = Clock_new(CountUp, None)
    /\ clock_pre = clock
    /\ clock_ghost = NoGhost
    /\ arg = 0
    /\ ret = NoCall

Start ==
    /\ clocks' = ChessClock_start(clocks, state, now)
    /\ History("start", state)
    /\ UNCHANGED <<state, rules, now, finish_called>>
    /\ UNCHANGED <<clock_vars, call_vars>>

Stop ==
    /\ clocks' = ChessClock_stop(clocks, state, now)
    /\ History("stop", state)
    /\ UNCHANGED <<state, rules, now, finish_called>>
    /\ UNCHANGED <<clock_vars, call_vars>>

Update ==
    /\ clocks' = ChessClock_update(clocks, now)
    /\ History("update", state)
    /\ UNCHANGED <<state, rules, now, finish_called>>
    /\ UNCHANGED <<clock_vars, call_vars>>

SwitchPlayer ==
    LET after == ChessClock_switch_player(clocks, state, rules, now)
    IN  /\ \A i \in {0, 1} : after.clocks[i].already_elapsed <= MaxBank
        /\ clocks' = after.clocks
        /\ state' = after.state
        /\ History("switch_player", after.state)
        /\ UNCHANGED <<rules, now, finish_called>>
        /\ UNCHANGED <<clock_vars, call_vars>>

Finish ==
    /\ clocks' = ChessClock_finish(clocks, now)
    /\ finish_called' = TRUE
    /\ History("finish", state)
    /\ UNCHANGED <<state, rules, now>>
    /\ UNCHANGED <<clock_vars, call_vars>>

\* the wall clock advances by one tick; the active player's clock, when it
\* runs and has time left, uses that tick
Tick ==
    /\ now < MaxNow
    /\ now' = now + 1
    /\ op' = "tick"
    /\ pre' = Snapshot
    /\ turn_used' =
          IF IsRunning(clocks[index(state)])
             /\ Clock_read(clocks[index(state)], now) > 0
          THEN turn_used + 1 ELSE turn_used
    /\ UNCHANGED <<clocks, state, rules, finish_called>>
    /\ UNCHANGED <<clock_vars, call_vars>>

Next == Start \/ Stop \/ Update \/ SwitchPlayer \/ Finish \/ Tick

Spec == Init /\ [][Next]_vars

(***************************************************************************)
(* The state machine of one Clock used on its own: a driver calling the    *)
(* Clock's public methods in any order while the wall clock advances.      *)
(***************************************************************************)
\* the history after a call that is neither start, finish, reset nor a read
Mutated == [clock_ghost EXCEPT !.clean = FALSE, !.t0 = 0, !.R = 0, !.time = 0]

\* the banked times the model follows: those up to MaxBank, and those within
\* MaxBank of Duration::MAX
Bankable(d) == d <= MaxBank \/ d >= DurationMax - MaxBank

\* the history variables after an operation named o
ClockHistory(o, ghost) ==
    /\ op' = o
    /\ clock_pre' = clock
    /\ clock_ghost' = ghost

ClockInit ==
    /\ \E mode \in {CountUp, CountDown} :
          \E d \in 0..MaxTime : clock = Clock_new(mode, Some(d))
    /\ clock_pre = clock
    /\ clock_ghost = NoGhost
    /\ now = 0
    /\ op = "new"
    /\ rules = [player1_time |-> 1, player2_time |-> 1, increment |-> 0,
                starter |-> Player1, timing_method |-> Fischer]
    /\ clocks = ChessClock_new(rules).clocks
    /\ state = ChessClock_new(rules).state
    /\ pre = [clocks |-> clocks, state |-> state, now |-> 0, turn_used |-> 0]
    /\ turn_used = 0
    /\ finish_called = FALSE
    /\ arg = 0
    /\ ret = NoCall

ClockStart ==
    /\ clock' = Clock_start(clock, now)
    /\ ClockHistory("start",
          IF clock.state = Stopped
          THEN [clock_ghost EXCEPT !.clean = TRUE, !.t0 = now,
                                   !.R = clock.already_elapsed]
          ELSE clock_ghost)
    /\ UNCHANGED now
    /\ UNCHANGED <<chess_vars, call_vars>>

ClockStop ==
    /\ clock' = Clock_stop(clock, now)
    /\ ClockHistory("stop", Mutated)
    /\ UNCHANGED now
    /\ UNCHANGED <<chess_vars, call_vars>>

\* Clock::reset, called by the driver.  Duration::MAX is given to a CountDown
\* clock only: a CountUp clock holding it cannot be read while running
ClockReset ==
    /\ \E start \in {None} \cup {Some(d) : d \in 0..MaxTime}
                    \cup (IF clock.mode = CountDown THEN {Some(DurationMax)}
                                                    ELSE {}) :
          clock' = Clock_reset(clock, start)
    /\ ClockHistory("reset", [Mutated EXCEPT !.reset_since = TRUE])
    /\ UNCHANGED now
    /\ UNCHANGED <<chess_vars, call_vars>>

ClockZero ==
    /\ clock' = Clock_zero(clock)
    /\ ClockHistory("zero", [Mutated EXCEPT !.reset_since = TRUE])
    /\ UNCHANGED now
    /\ UNCHANGED <<chess_vars, call_vars>>

ClockAdd ==
    /\ \E time \in 0..MaxInc :
          /\ Bankable(saturating_add(clock.already_elapsed, time))
          /\ clock' = Clock_add(clock, time)
          /\ ClockHistory("add", [Mutated EXCEPT !.time = time])
    /\ UNCHANGED now
    /\ UNCHANGED <<chess_vars, call_vars>>

ClockSubtract ==
    /\ \E time \in 0..MaxInc :
          /\ Bankable(Clock_subtract(clock, time, now).already_elapsed)
          /\ clock' = Clock_subtract(clock, time, now)
          /\ ClockHistory("subtract", [Mutated EXCEPT !.time = time])
    /\ UNCHANGED now
    /\ UNCHANGED <<chess_vars, call_vars>>

ClockReadAndUpdate ==
    /\ clock' = Clock_read_and_update(clock, now)
    /\ ClockHistory("read_and_update", Mutated)
    /\ UNCHANGED now
    /\ UNCHANGED <<chess_vars, call_vars>>

ClockStateAndUpdate ==
    /\ clock' = Clock_state_and_update(clock, now)
    /\ ClockHistory("state_and_update", Mutated)
    /\ UNCHANGED now
    /\ UNCHANGED <<chess_vars, call_vars>>

ClockFinish ==
    /\ clock' = Clock_finish(clock, now)
    /\ ClockHistory("finish",
          [Mutated EXCEPT !.finished = TRUE, !.reset_since = FALSE])
    /\ UNCHANGED now
    /\ UNCHANGED <<chess_vars, call_vars>>

\* a read() that normalises the clock as read_and_update() does
ClockRead_normalising ==
    /\ clock' = Clock_read_and_update(clock, now)
    /\ ClockHistory("read", clock_ghost)
    /\ UNCHANGED now
    /\ UNCHANGED <<chess_vars, call_vars>>

\* Clock::read, called by the driver (and by Display): &self, no assignment
ClockRead ==
    /\ clock' = clock
    /\ ClockHistory("read", clock_ghost)
    /\ UNCHANGED now
    /\ UNCHANGED <<chess_vars, call_vars>>

\* Clock::read_running, called by the driver: &self, no assignment
ClockReadRunning ==
    /\ clock' = clock
    /\ ClockHistory("read_running", clock_ghost)
    /\ UNCHANGED now
    /\ UNCHANGED <<chess_vars, call_vars>>

\* Clock::state, called by the driver: &self, no assignment
ClockState ==
    /\ clock' = clock
    /\ ClockHistory("state", clock_ghost)
    /\ UNCHANGED now
    /\ UNCHANGED <<chess_vars, call_vars>>

\* the wall clock advances by one tick
ClockTick ==
    /\ now < MaxNow
    /\ now' = now + 1
    /\ ClockHistory("tick", clock_ghost)
    /\ UNCHANGED clock
    /\ UNCHANGED <<chess_vars, call_vars>>

ClockNext ==
    \/ ClockStart \/ ClockStop \/ ClockReset \/ ClockZero \/ ClockAdd
    \/ ClockSubtract \/ ClockReadAndUpdate \/ ClockStateAndUpdate
    \/ ClockFinish \/ ClockRead \/ ClockReadRunning \/ ClockState
    \/ ClockTick

ClockSpec == ClockInit /\ [][ClockNext]_vars

(***************************************************************************)
(* status() applied to a ChessClock whose players' times range over every  *)
(* Duration with whole seconds in u64 (scaled), after new and after        *)
(* finish().                                                               *)
(***************************************************************************)
\* the largest Duration whose as_secs() is in u64, scaled, in ticks
MaxDuration == U64Modulus * TicksPerSec - 1

StatusInit ==
    /\ \E t1 \in 0..MaxDuration : \E t2 \in 0..MaxDuration :
          rules = [player1_time |-> t1, player2_time |-> t2, increment |-> 0,
                   starter |-> Player1, timing_method |-> Fischer]
    /\ clocks = ChessClock_new(rules).clocks
    /\ state = ChessClock_new(rules).state
    /\ now = 0
    /\ op = "new"
    /\ pre = [clocks |-> clocks, state |-> state, now |-> 0, turn_used |-> 0]
    /\ turn_used = 0
    /\ finish_called = FALSE
    /\ clock = Clock_new(CountUp, None)
    /\ clock_pre = clock
    /\ clock_ghost = NoGhost
    /\ arg = 0
    /\ ret = NoCall

\* ChessClock::status, called by the driver
StatusCall ==
    /\ ret' \in ChessClock_status_u64(clocks, now)
    /\ op' = "status"
    /\ UNCHANGED <<clocks, state, rules, now, pre, turn_used, finish_called>>
    /\ UNCHANGED <<clock_vars, arg>>

\* ChessClock::finish, called by the driver
StatusFinish ==
    /\ ~finish_called
    /\ clocks' = ChessClock_finish(clocks, now)
    /\ finish_called' = TRUE
    /\ op' = "finish"
    /\ UNCHANGED <<state, rules, now, pre, turn_used>>
    /\ UNCHANGED <<clock_vars, call_vars>>

StatusNext == StatusCall \/ StatusFinish

StatusSpec == StatusInit /\ [][StatusNext]_vars

(***************************************************************************)
(* duration_display.rs and utils.rs: the Display of a duration.  A         *)
(* duration is a number of milliseconds here; the f64 the code computes    *)
(* with holds thousandths of a second exactly over the model's range, so   *)
(* it is written as that number of milliseconds.  The rendered text is the *)
(* sequence of its ':'-separated fields, each the sequence of its digits.  *)
(***************************************************************************)
\* the width of u32 in bits, scaled down to the model's range
U32Bits == 12

\* u32::MAX, scaled
U32Max == 2 ^ U32Bits - 1

\* the divisor in `millis as f64 / 1000.0`
MillisPerSec == 1000

\* the divisor in `time as u32 / 60`, `time % 60.0` and `mins / 60`
Sixty == 60

\* utils::round for places = 0, on a number given in milliseconds:
\* f64::round is to the nearest integer, halves away from zero
round(num, places) ==
    LET factor == 10 ^ places
    IN  ((num * factor + MillisPerSec \div 2) \div MillisPerSec) \div factor

\* `time as u32`: the cast of a non-negative f64 saturates at u32::MAX
as_u32(time) == IF time > U32Max THEN U32Max ELSE time

RECURSIVE Digits(_)
\* the decimal digits of n
Digits(n) == IF n < 10 THEN <<n>> ELSE Append(Digits(n \div 10), n % 10)

\* the formats {:02} and {:02.0}: at least two digits, padded with a zero
Pad2(n) == IF n < 10 THEN <<0, n>> ELSE Digits(n)

\* impl Display for DurationDisplay, not alternate: precision 0, width 2
DurationDisplay_fmt(d) ==
    LET as_secs_d == d \div MillisPerSec
        millis == d % MillisPerSec
        secs_f == as_secs_d * MillisPerSec + millis
        time == round(secs_f, 0)
        mins == as_u32(time) \div Sixty
        secs == time % Sixty
    IN  IF mins >= Sixty
        THEN <<Pad2(mins \div Sixty), Pad2(mins % Sixty), Pad2(secs)>>
        ELSE <<Pad2(mins), Pad2(secs)>>

\* the largest whole number of seconds displayed in the model
DisplayMaxSecs == U32Max + 2 * Sixty

\* the milliseconds within a second displayed in the model: both ends and
\* both sides of the half
DisplayMillis == {0, 1, 499, 500, 501, 990, 999}

DisplayInit ==
    /\ \E s \in 0..DisplayMaxSecs : \E ms \in DisplayMillis :
          arg = s * MillisPerSec + ms
    /\ ret = NoCall
    /\ op = "new"
    /\ now = 0
    /\ rules = [player1_time |-> 1, player2_time |-> 1, increment |-> 0,
                starter |-> Player1, timing_method |-> Fischer]
    /\ clocks = ChessClock_new(rules).clocks
    /\ state = ChessClock_new(rules).state
    /\ pre = [clocks |-> clocks, state |-> state, now |-> 0, turn_used |-> 0]
    /\ turn_used = 0
    /\ finish_called = FALSE
    /\ clock = Clock_new(CountUp, None)
    /\ clock_pre = clock
    /\ clock_ghost = NoGhost

\* format!("{}", DurationDisplay::from(d))
DisplayFmt ==
    /\ ret' = DurationDisplay_fmt(arg)
    /\ op' = "display"
    /\ UNCHANGED <<arg, now>>
    /\ UNCHANGED <<chess_vars, clock_vars>>

DisplayNext == DisplayFmt

DisplaySpec == DisplayInit /\ [][DisplayNext]_vars

(***************************************************************************)
(* bin/clock_cli.rs: run_clock.  `op` is the step of the loop taken last:  *)
(*   clock.start();                                                        *)
(*   while let ClockState::Running(_) = clock.state() {                    *)
(*       async_process_keys(clock, &mut keys);                             *)
(*       display_clock(clock, &mut stdout);                                *)
(*       sleep(Duration::from_millis(10));                                 *)
(*   }                                                                     *)
(* The keys are 'q', 'r', ']' and '[' (the keys of a minute and of an hour *)
(* differ from ']' and '[' in the amount only).  The wall clock is not     *)
(* distinguished beyond MaxNow: with no key pressed, no CountDown clock of *)
(* CliInit has time left then.                                             *)
(***************************************************************************)
\* times.rs: ONE_SECOND
ONE_SECOND == TicksPerSec

\* the steps of async_process_keys in which a key was read
KeyPressed == {"key_q", "key_r", "key_add", "key_subtract"}

CliInit ==
    /\ \E mode \in {CountUp, CountDown} :
          \E d \in 0..MaxTime : clock = Clock_new(mode, Some(d))
    /\ clock_pre = clock
    /\ clock_ghost = NoGhost
    /\ now = 0
    /\ op = "new"
    /\ rules = [player1_time |-> 1, player2_time |-> 1, increment |-> 0,
                starter |-> Player1, timing_method |-> Fischer]
    /\ clocks = ChessClock_new(rules).clocks
    /\ state = ChessClock_new(rules).state
    /\ pre = [clocks |-> clocks, state |-> state, now |-> 0, turn_used |-> 0]
    /\ turn_used = 0
    /\ finish_called = FALSE
    /\ arg = 0
    /\ ret = NoCall

\* clock.start()
CliStart ==
    /\ op = "new"
    /\ clock' = Clock_start(clock, now)
    /\ op' = "start"
    /\ UNCHANGED <<now, clock_pre, clock_ghost>>
    /\ UNCHANGED <<chess_vars, call_vars>>

\* the loop's test finds clock.state() Running: the body is entered
CliEnter ==
    /\ op \in {"start", "sleep"}
    /\ IsRunning(clock)
    /\ op' = "state"
    /\ UNCHANGED <<now, clock_vars>>
    /\ UNCHANGED <<chess_vars, call_vars>>

\* the loop's test finds clock.state() not Running: the loop ends
CliExit ==
    /\ op \in {"start", "sleep"}
    /\ ~IsRunning(clock)
    /\ op' = "done"
    /\ UNCHANGED <<now, clock_vars>>
    /\ UNCHANGED <<chess_vars, call_vars>>

\* async_process_keys: no key, or one of the keys
CliProcessKeys ==
    /\ op = "state"
    /\ \/ /\ clock' = clock
          /\ op' = "keys"
       \/ /\ clock' = Clock_stop(clock, now)
          /\ op' = "key_q"
       \/ /\ clock' = Clock_start(Clock_reset(clock, None), now)
          /\ op' = "key_r"
       \/ /\ Bankable(saturating_add(clock.already_elapsed, ONE_SECOND))
          /\ clock' = Clock_add(clock, ONE_SECOND)
          /\ op' = "key_add"
       \/ /\ clock' = Clock_subtract(clock, ONE_SECOND, now)
          /\ op' = "key_subtract"
    /\ UNCHANGED <<now, clock_pre, clock_ghost>>
    /\ UNCHANGED <<chess_vars, call_vars>>

\* display_clock: Display for Clock calls read(), which changes nothing
CliDisplay ==
    /\ op \in {"keys"} \cup KeyPressed
    /\ op' = "display"
    /\ UNCHANGED <<now, clock_vars>>
    /\ UNCHANGED <<chess_vars, call_vars>>

\* sleep: the wall clock advances by one tick
CliSleep ==
    /\ op = "display"
    /\ now' = IF now < MaxNow THEN now + 1 ELSE now
    /\ op' = "sleep"
    /\ UNCHANGED clock_vars
    /\ UNCHANGED <<chess_vars, call_vars>>

CliNext ==
    \/ CliStart \/ CliEnter \/ CliExit \/ CliProcessKeys \/ CliDisplay
    \/ CliSleep

\* run_clock runs on one thread that nothing suspends: it takes its next step
CliSpec == CliInit /\ [][CliNext]_vars /\ WF_vars(CliNext)

(***************************************************************************)
(* bin/chess_clock_cli.rs: run_clock.  `op` is the step of the loop taken  *)
(* last:                                                                   *)
(*   while chess_clock.status() != Status::Finished {                      *)
(*       async_process_input(chess_clock, &mut keys);                      *)
(*       display_clock(chess_clock, &mut stdout);                          *)
(*       sleep(Duration::from_millis(10));                                 *)
(*   }                                                                     *)
(* A clock sees the wall clock only through now - start, so once now is    *)
(* MaxNow a sleep moves the start instant of a running clock back by one   *)
(* tick instead of moving now forward; a clock that reads zero reads zero  *)
(* at every later instant and is left as it is.                            *)
(***************************************************************************)
\* the steps of async_process_input in which a key was read
ChessKeyPressed == {"key_q", "key_space", "key_enter"}

\* main: both players get the start time, Player1 starts
ChessCliInit ==
    /\ \E start_time \in 0..MaxTime : \E increment \in 0..MaxInc :
          \E timing_method \in {Fischer, Bronstein} :
             rules = [player1_time |-> start_time, player2_time |-> start_time,
                      increment |-> increment, starter |-> Player1,
                      timing_method |-> timing_method]
    /\ clocks = ChessClock_new(rules).clocks
    /\ state = ChessClock_new(rules).state
    /\ now = 0
    /\ op = "new"
    /\ pre = [clocks |-> clocks, state |-> state, now |-> 0, turn_used |-> 0]
    /\ turn_used = 0
    /\ finish_called = FALSE
    /\ clock = Clock_new(CountUp, None)
    /\ clock_pre = clock
    /\ clock_ghost = NoGhost
    /\ arg = 0
    /\ ret = NoCall

\* the loop's test finds status() other than Finished: the body is entered
ChessCliEnter ==
    /\ op \in {"new", "sleep"}
    /\ ChessClock_status(clocks, now) # "Finished"
    /\ op' = "status"
    /\ UNCHANGED <<now, chess_vars>>
    /\ UNCHANGED <<clock_vars, call_vars>>

\* the loop's test finds status() Finished: the loop ends
ChessCliExit ==
    /\ op \in {"new", "sleep"}
    /\ ChessClock_status(clocks, now) = "Finished"
    /\ op' = "done"
    /\ UNCHANGED <<now, chess_vars>>
    /\ UNCHANGED <<clock_vars, call_vars>>

\* async_process_input: no key, or one of the keys
ChessCliProcessInput ==
    /\ op = "status"
    /\ \/ /\ op' = "input"
          /\ UNCHANGED <<clocks, state, finish_called>>
       \/ /\ clocks' =
                ChessClock_finish(
                    IF ChessClock_status(clocks, now) = "Running"
                    THEN ChessClock_stop(clocks, state, now) ELSE clocks,
                    now)
          /\ finish_called' = TRUE
          /\ op' = "key_q"
          /\ UNCHANGED state
       \/ LET after == ChessClock_switch_player(clocks, state, rules, now)
          IN  /\ \A i \in {0, 1} : after.clocks[i].already_elapsed <= MaxBank
              /\ clocks' = after.clocks
              /\ state' = after.state
              /\ op' = "key_space"
              /\ UNCHANGED finish_called
       \/ /\ clocks' =
                IF ChessClock_status(clocks, now) = "Running"
                THEN ChessClock_stop(clocks, state, now)
                ELSE ChessClock_start(clocks, state, now)
          /\ op' = "key_enter"
          /\ UNCHANGED <<state, finish_called>>
    /\ UNCHANGED <<rules, now, pre, turn_used>>
    /\ UNCHANGED <<clock_vars, call_vars>>

\* display_clock: format_chess_clock calls read(), status() and
\* active_player(), which change nothing
ChessCliDisplay ==
    /\ op \in {"input"} \cup ChessKeyPressed
    /\ op' = "display"
    /\ UNCHANGED <<now, chess_vars>>
    /\ UNCHANGED <<clock_vars, call_vars>>

\* sleep: the wall clock advances by one tick
ChessCliSleep ==
    /\ op = "display"
    /\ IF now < MaxNow
       THEN /\ now' = now + 1
            /\ UNCHANGED clocks
       ELSE /\ now' = now
            /\ clocks' =
                  [i \in {0, 1} |->
                      IF IsRunning(clocks[i]) /\ Clock_read(clocks[i], now) > 0
                      THEN [clocks[i] EXCEPT !.state.start = @ - 1]
                      ELSE clocks[i]]
    /\ op' = "sleep"
    /\ UNCHANGED <<state, rules, pre, turn_used, finish_called>>
    /\ UNCHANGED <<clock_vars, call_vars>>

ChessCliNext ==
    \/ ChessCliEnter \/ ChessCliExit \/ ChessCliProcessInput
    \/ ChessCliDisplay \/ ChessCliSleep

\* run_clock runs on one thread that nothing suspends: it takes its next step
ChessCliSpec == ChessCliInit /\ [][ChessCliNext]_vars /\ WF_vars(ChessCliNext)

(***************************************************************************)
(* What the driver observes, now and before the last operation.            *)
(***************************************************************************)
Remaining(i) == Clock_read(clocks[i], now)

PreRemaining(i) == Clock_read(pre.clocks[i], pre.now)

Status == ChessClock_status(clocks, now)

PreStatus == ChessClock_status(pre.clocks, pre.now)

\* the index of the player who was active before the last operation
Outgoing == index(pre.state)

\* the index of the other player
Incoming == index(other(pre.state))

\* the time since the outgoing clock's run segment began, before the last operation
PreRunningTime == pre.now - pre.clocks[Outgoing].state.start

\* the last operation was a switch_player() called while the active player's
\* clock was Running with time left
SwitchedWhileRunning ==
    /\ op = "switch_player"
    /\ IsRunning(pre.clocks[Outgoing])
    /\ PreRemaining(Outgoing) > 0

(***************************************************************************)
(* C1: after any sequence of start, stop, switch_player and update calls   *)
(* and passage of time, at most one of the two clocks is Running.          *)
(***************************************************************************)
C1_AtMostOneRunning ==
    ~finish_called => ~(IsRunning(clocks[0]) /\ IsRunning(clocks[1]))

\* a switch has handed the running clock over: the incoming clock runs
C1_Witness ==
    /\ SwitchedWhileRunning
    /\ ~finish_called
    /\ IsRunning(clocks[Incoming])
    /\ ~IsRunning(clocks[Outgoing])

(***************************************************************************)
(* C2: under Fischer, a switch_player() called while the active clock is   *)
(* Running with remaining time r > 0 leaves the outgoing player with       *)
(* r + increment, however long the turn lasted.                            *)
(***************************************************************************)
C2_FischerAddsIncrement ==
    (SwitchedWhileRunning /\ rules.timing_method = Fischer)
        => Remaining(Outgoing) = PreRemaining(Outgoing) + rules.increment

\* a Fischer switch after a turn longer than the (non-zero) increment
C2_Witness ==
    /\ SwitchedWhileRunning
    /\ rules.timing_method = Fischer
    /\ rules.increment > 0
    /\ PreRunningTime > rules.increment
    /\ Remaining(Outgoing) > PreRemaining(Outgoing)

(***************************************************************************)
(* C3: under Bronstein, a switch_player() called while the active clock is *)
(* Running with remaining time r > 0 leaves the outgoing player with       *)
(* r + min(running_time, increment), running_time being the time since the *)
(* clock's current run segment began.                                      *)
(***************************************************************************)
C3_BronsteinAddsMin ==
    (SwitchedWhileRunning /\ rules.timing_method = Bronstein)
        => Remaining(Outgoing) =
              PreRemaining(Outgoing) + Min(PreRunningTime, rules.increment)

\* a Bronstein switch after a run segment shorter than the increment
C3_Witness ==
    /\ SwitchedWhileRunning
    /\ rules.timing_method = Bronstein
    /\ PreRunningTime > 0
    /\ PreRunningTime < rules.increment
    /\ Remaining(Outgoing) = PreRemaining(Outgoing) + PreRunningTime

(***************************************************************************)
(* C4: under Bronstein, the amount added back by switch_player() is        *)
(* min(time the player's clock ran since they became the active player,    *)
(* increment), also for a turn paused with stop() and resumed with start().*)
(***************************************************************************)
C4_BronsteinAddsTurnTime ==
    (SwitchedWhileRunning /\ rules.timing_method = Bronstein)
        => Remaining(Outgoing) - PreRemaining(Outgoing) =
              Min(pre.turn_used, rules.increment)

(***************************************************************************)
(* C5: under Bronstein, each player's remaining time is at most that       *)
(* player's initial time, in every reachable state.                        *)
(***************************************************************************)
C5_BronsteinNeverAccumulates ==
    rules.timing_method = Bronstein
        => /\ Remaining(0) <= rules.player1_time
           /\ Remaining(1) <= rules.player2_time

\* a Bronstein switch after a run segment at least as long as the increment:
\* the player gets the increment back and is at the initial time again
C5_Witness ==
    /\ SwitchedWhileRunning
    /\ rules.timing_method = Bronstein
    /\ rules.increment > 0
    /\ PreRunningTime >= rules.increment
    /\ Remaining(Outgoing) > PreRemaining(Outgoing)
    /\ Remaining(Outgoing) =
          (IF Outgoing = 0 THEN rules.player1_time ELSE rules.player2_time)

(***************************************************************************)
(* C6: after finish(), status() returns Finished after every subsequent    *)
(* sequence of start, stop, switch_player, update and finish calls and     *)
(* passage of time.                                                        *)
(***************************************************************************)
C6_FinishIsTerminal == finish_called => Status = "Finished"

\* finish() was called with a whole second left on both clocks, and start()
\* or switch_player() has been called since
C6_Witness ==
    /\ finish_called
    /\ op \in {"start", "switch_player"}
    /\ as_secs(Remaining(0)) * as_secs(Remaining(1)) > 0

(***************************************************************************)
(* C7: once status() has returned Finished, for any reason, every later    *)
(* status() returns Finished.                                              *)
(***************************************************************************)
C7_FinishedStatusIsTerminal ==
    [][Status = "Finished" => Status' = "Finished"]_vars

(***************************************************************************)
(* C8: status() is Finished if either remaining time is exactly zero;      *)
(* otherwise Finished if both clocks are Finished; otherwise Stopped if    *)
(* both are Stopped; otherwise Running.  A strictly positive remaining     *)
(* time does not by itself give Finished.                                  *)
(***************************************************************************)
StatusByExactZero(cs, t) ==
    IF Clock_read(cs[0], t) = 0 \/ Clock_read(cs[1], t) = 0 THEN "Finished"
    ELSE IF cs[0].state = Finished /\ cs[1].state = Finished THEN "Finished"
    ELSE IF cs[0].state = Stopped /\ cs[1].state = Stopped THEN "Stopped"
    ELSE "Running"

C8_StatusRule == Status = StatusByExactZero(clocks, now)

(***************************************************************************)
(* C9: switch_player() after the match has ended, through finish() or      *)
(* through a player's time reaching zero, is inert: the active player,     *)
(* both clocks' states and both remaining times are unchanged.             *)
(***************************************************************************)
PreMatchEnded ==
    /\ PreStatus = "Finished"
    /\ \/ pre.clocks[0].state = Finished /\ pre.clocks[1].state = Finished
       \/ PreRemaining(0) = 0
       \/ PreRemaining(1) = 0

C9_SwitchAfterEndIsInert ==
    (op = "switch_player" /\ PreMatchEnded)
        => /\ state = pre.state
           /\ \A i \in {0, 1} :
                 /\ clocks[i].state.tag = pre.clocks[i].state.tag
                 /\ Remaining(i) = PreRemaining(i)

(***************************************************************************)
(* C10: switch_player() called while the active player's clock is Stopped  *)
(* flips the active player, adds no increment, starts no clock, and leaves *)
(* both clocks' remaining times and states unchanged.                      *)
(***************************************************************************)
C10_SwitchWhileStopped ==
    (op = "switch_player" /\ pre.clocks[Outgoing].state = Stopped)
        => /\ state = other(pre.state)
           /\ clocks = pre.clocks
           /\ \A i \in {0, 1} : Remaining(i) = PreRemaining(i)

\* a switch while paused mid-match: the outgoing player has used time, and
\* the rules have an increment to add
C10_Witness ==
    /\ op = "switch_player"
    /\ pre.clocks[Outgoing].state = Stopped
    /\ pre.turn_used > 0
    /\ PreRemaining(Outgoing) > 0
    /\ rules.increment > 0
    /\ ~finish_called
    /\ state = other(pre.state)

(***************************************************************************)
(* C11: once a Clock is Finished, no start(), stop(), add(), subtract() or *)
(* read_and_update() call changes its state away from Finished.            *)
(***************************************************************************)
C11_ClockFinishedStays ==
    (/\ clock_pre.state = Finished
     /\ op \in {"start", "stop", "add", "subtract", "read_and_update"})
        => clock.state = Finished

\* subtract() was called on a Finished clock and left time on it
C11_Witness ==
    /\ clock_pre.state = Finished
    /\ op = "subtract"
    /\ clock.already_elapsed > 0
    /\ clock.state = Finished

(***************************************************************************)
(* C12: after Clock.finish(), no sequence of the public mutating           *)
(* operations (start, stop, reset, zero, add, subtract, read_and_update,   *)
(* state_and_update, finish) brings the clock back into Running.           *)
(***************************************************************************)
C12_NeverRunningAfterFinish == clock_ghost.finished => ~IsRunning(clock)

\* as amended: ... unless reset() or zero() has been called since finish()
C12_NotRunningUnlessReset ==
    (clock_ghost.finished /\ ~clock_ghost.reset_since) => ~IsRunning(clock)

\* start() was called on a clock finished and not reset since
C12_Witness ==
    /\ clock_ghost.finished
    /\ ~clock_ghost.reset_since
    /\ op = "start"
    /\ clock_pre.state = Finished
    /\ clock_pre.already_elapsed > 0

(***************************************************************************)
(* C13: a running CountDown clock whose remaining time has reached zero    *)
(* is Stopped with banked time 0 after the next read_and_update(); and no  *)
(* read of a CountDown clock is negative.                                  *)
(***************************************************************************)
C13_AutoStopAtZero ==
    /\ (/\ op = "read_and_update"
        /\ IsRunning(clock_pre)
        /\ clock_pre.mode = CountDown
        /\ Clock_read(clock_pre, now) = 0)
          => (clock.state = Stopped /\ clock.already_elapsed = 0)
    /\ clock.mode = CountDown => Clock_read(clock, now) >= 0

\* read_and_update() on a CountDown clock that ran past its remaining time
C13_Witness ==
    /\ op = "read_and_update"
    /\ IsRunning(clock_pre)
    /\ clock_pre.mode = CountDown
    /\ clock_pre.already_elapsed > 0
    /\ now - clock_pre.state.start > clock_pre.already_elapsed
    /\ clock.state = Stopped

(***************************************************************************)
(* C14: a CountDown clock started at t0 with remaining time R and not      *)
(* otherwise mutated reads max(0, R - (t1 - t0)) at any later instant t1;  *)
(* successive reads are non-increasing.                                    *)
(***************************************************************************)
C14_CountDownRead ==
    (clock_ghost.clean /\ clock.mode = CountDown)
        => /\ Clock_read(clock, now) =
                 (IF clock_ghost.R - (now - clock_ghost.t0) > 0
                  THEN clock_ghost.R - (now - clock_ghost.t0) ELSE 0)
           /\ op = "tick" => Clock_read(clock, now) <= Clock_read(clock_pre, now - 1)

\* a read after the started clock has run for longer than it had left
C14_Witness ==
    /\ clock_ghost.clean
    /\ clock.mode = CountDown
    /\ op = "read"
    /\ clock_ghost.R > 0
    /\ now - clock_ghost.t0 > clock_ghost.R
    /\ Clock_read(clock, now) = 0

(***************************************************************************)
(* C15: start() on a Running clock and stop() on a Stopped clock are       *)
(* no-ops: the state, with the start instant of the run segment, and the   *)
(* banked time are unchanged.                                              *)
(***************************************************************************)
C15_StartStopIdempotent ==
    /\ (op = "start" /\ IsRunning(clock_pre)) => clock = clock_pre
    /\ (op = "stop" /\ clock_pre.state = Stopped) => clock = clock_pre

\* start() on a clock that has been running for some time
C15_Witness ==
    /\ op = "start"
    /\ IsRunning(clock_pre)
    /\ now > clock_pre.state.start
    /\ IsRunning(clock)

(***************************************************************************)
(* C16: a switch_player() called while the active clock is Running with    *)
(* time left leaves the outgoing clock Stopped, the incoming clock Running *)
(* with its remaining time as before, and the other player active.         *)
(***************************************************************************)
C16_SwitchHandsOver ==
    SwitchedWhileRunning
        => /\ clocks[Outgoing].state = Stopped
           /\ IsRunning(clocks[Incoming])
           /\ Remaining(Incoming) = PreRemaining(Incoming)
           /\ state = other(pre.state)

\* a switch after the outgoing player has used time, the incoming player
\* having time left
C16_Witness ==
    /\ SwitchedWhileRunning
    /\ pre.turn_used > 0
    /\ PreRemaining(Incoming) > 0
    /\ state = other(pre.state)
    /\ clocks[Incoming].state = Running(now)

(***************************************************************************)
(* C17: ChessClock.start() and ChessClock.stop() affect only the active    *)
(* player's clock: the inactive player's clock and the active player are   *)
(* unchanged.                                                              *)
(***************************************************************************)
C17_StartStopOnlyActive ==
    op \in {"start", "stop"}
        => /\ clocks[Incoming] = pre.clocks[Incoming]
           /\ Remaining(Incoming) = PreRemaining(Incoming)
           /\ state = pre.state

\* start() has started the active player's clock
C17_Witness ==
    /\ op = "start"
    /\ pre.clocks[Outgoing].state = Stopped
    /\ IsRunning(clocks[Outgoing])
    /\ clocks[Incoming].state = Stopped

(***************************************************************************)
(* C18: ChessClock.finish() puts both clocks in state Finished from any    *)
(* prior state and freezes the readings: read() right after finish() is    *)
(* the remaining times at the call, and stays constant afterwards.         *)
(***************************************************************************)
C18_FinishFreezes ==
    /\ op = "finish"
          => \A i \in {0, 1} : /\ clocks[i].state = Finished
                               /\ Remaining(i) = PreRemaining(i)
    /\ (finish_called /\ op # "finish")
          => \A i \in {0, 1} : Remaining(i) = PreRemaining(i)

\* finish() called while the active clock was running, with time used and left
C18_Witness ==
    /\ op = "finish"
    /\ IsRunning(pre.clocks[Outgoing])
    /\ pre.now > pre.clocks[Outgoing].state.start
    /\ PreRemaining(Outgoing) > 0
    /\ clocks[Outgoing].state = Finished

(***************************************************************************)
(* C19: immediately after update(), status() = Finished implies that       *)
(* neither clock's state() is Running.                                     *)
(***************************************************************************)
C19_FinishedAfterUpdateNotRunning ==
    (op = "update" /\ Status = "Finished")
        => ~(IsRunning(clocks[0]) \/ IsRunning(clocks[1]))

(***************************************************************************)
(* C20: the non-mutating accessors (read, read_running, state) leave the   *)
(* clock unchanged; a running CountDown clock whose read() returns zero    *)
(* stays Running until a mutating read.                                    *)
(***************************************************************************)
C20_AccessorsArePure ==
    op \in {"read", "read_running", "state"} => clock = clock_pre

\* read() has returned zero on a running CountDown clock, which still runs
C20_Witness ==
    /\ op = "read"
    /\ clock.mode = CountDown
    /\ IsRunning(clock)
    /\ clock.already_elapsed > 0
    /\ Clock_read(clock, now) = 0

(***************************************************************************)
(* C21: immediately after ChessClock::new(rules), both underlying clocks   *)
(* are Stopped, read() returns (rules.player1_time, rules.player2_time)    *)
(* and active_player() is rules.starter.                                   *)
(***************************************************************************)
C21_NewIsStopped ==
    op = "new"
        => /\ clocks[0].state = Stopped
           /\ clocks[1].state = Stopped
           /\ ChessClock_read(clocks, now)[0] = rules.player1_time
           /\ ChessClock_read(clocks, now)[1] = rules.player2_time
           /\ state = rules.starter

\* a new ChessClock whose players have different times and whose starter is
\* the second player
C21_Witness ==
    /\ op = "new"
    /\ rules.player1_time # rules.player2_time
    /\ rules.starter = Player2
    /\ Remaining(0) = rules.player1_time
    /\ Remaining(1) = rules.player2_time
    /\ state = Player2

(***************************************************************************)
(* C22: stop() on a Running clock banks the current reading and moves to   *)
(* Stopped: read() right after stop() equals read() at the instant of the  *)
(* call, stays constant while time passes, and a later start() resumes     *)
(* counting from exactly that value, for both CountUp and CountDown.       *)
(***************************************************************************)
C22_StopBanksReading ==
    /\ (op = "stop" /\ IsRunning(clock_pre))
          => /\ clock.state = Stopped
             /\ Clock_read(clock, now) = Clock_read(clock_pre, now)
    /\ (op = "tick" /\ clock.state = Stopped)
          => Clock_read(clock, now) = Clock_read(clock_pre, now - 1)
    /\ (op = "start" /\ clock_pre.state = Stopped)
          => /\ IsRunning(clock)
             /\ Clock_read(clock, now) = Clock_read(clock_pre, now)
    /\ (clock_ghost.clean /\ clock.mode = CountUp)
          => Clock_read(clock, now) = clock_ghost.R + (now - clock_ghost.t0)
    /\ (clock_ghost.clean /\ clock.mode = CountDown)
          => Clock_read(clock, now) =
                saturating_sub(clock_ghost.R, now - clock_ghost.t0)

\* stop() on a CountUp clock that has run for some time on top of banked time
C22_Witness ==
    /\ op = "stop"
    /\ IsRunning(clock_pre)
    /\ clock.mode = CountUp
    /\ clock_pre.already_elapsed > 0
    /\ now > clock_pre.state.start
    /\ clock.state = Stopped
    /\ clock.already_elapsed = clock_pre.already_elapsed + (now - clock_pre.state.start)

(***************************************************************************)
(* C23: for every pair of remaining times representable as a Duration,     *)
(* status() returns a Status without arithmetic overflow, and its          *)
(* time-based Finished rule fires only when one of the two whole-second    *)
(* factors is zero, never because the product wrapped to zero.             *)
(***************************************************************************)
C23_StatusTotal ==
    op = "status"
        => /\ ret # "panic"
           /\ (/\ ret = "Finished"
               /\ ~(clocks[0].state = Finished /\ clocks[1].state = Finished))
                 => (as_secs(Remaining(0)) = 0 \/ as_secs(Remaining(1)) = 0)

(***************************************************************************)
(* C24: for every duration d at millisecond resolution, the default        *)
(* display is T = d rounded half-up to whole seconds, rendered as MM:SS    *)
(* with MM = T div 60 and SS = T mod 60, and as HH:MM:SS exactly when      *)
(* T >= 3600 s.                                                            *)
(***************************************************************************)
\* d rounded half-up to whole seconds
RoundedSecs(d) == (d + 500) \div 1000

\* the text of the claim for a duration d
ClaimedDisplay(d) ==
    LET T == RoundedSecs(d)
    IN  IF T >= 3600
        THEN <<Pad2(T \div 3600), Pad2((T \div 60) % 60), Pad2(T % 60)>>
        ELSE <<Pad2(T \div 60), Pad2(T % 60)>>

C24_DisplayRoundsHalfUp == op = "display" => ret = ClaimedDisplay(arg)

(***************************************************************************)
(* C25: a running CountDown clock driven as in the clock CLI loop, with no *)
(* key pressed, eventually has a state() other than Running once its       *)
(* remaining time has reached zero, so that the loop                       *)
(* `while state() is Running` terminates.                                  *)
(***************************************************************************)
C25_CliLoopTerminates ==
    clock.mode = CountDown => <>(op = "done" \/ op \in KeyPressed)

(***************************************************************************)
(* C26: subtract(d) on a Running clock with current reading r leaves the   *)
(* clock reading max(0, r - d), Running if that is positive and Stopped if *)
(* it is zero; on a Stopped clock it subtracts d from the banked time,     *)
(* saturating at zero, and the state stays Stopped.                        *)
(***************************************************************************)
C26_Subtract ==
    LET d == clock_ghost.time
        r == Clock_read(clock_pre, now)
        left == IF r - d > 0 THEN r - d ELSE 0
    IN  /\ (op = "subtract" /\ IsRunning(clock_pre))
              => /\ Clock_read(clock, now) = left
                 /\ left > 0 => IsRunning(clock)
                 /\ left = 0 => clock.state = Stopped
        /\ (op = "subtract" /\ clock_pre.state = Stopped)
              => /\ clock.already_elapsed = left
                 /\ clock.state = Stopped

\* subtract() of less than the reading of a clock that has run for some time
C26_Witness ==
    /\ op = "subtract"
    /\ IsRunning(clock_pre)
    /\ now > clock_pre.state.start
    /\ clock_ghost.time > 0
    /\ Clock_read(clock_pre, now) > clock_ghost.time
    /\ IsRunning(clock)
    /\ Clock_read(clock, now) = Clock_read(clock_pre, now) - clock_ghost.time

(***************************************************************************)
(* C27: add(d) is legal in every state (Stopped, Running, Finished): it    *)
(* increases the banked time by d, saturating at the maximum, and changes  *)
(* neither the state nor the start instant of the current run segment      *)
(* (read_running() is unaffected).                                         *)
(***************************************************************************)
C27_AddKeepsState ==
    op = "add"
        => /\ clock.state = clock_pre.state
           /\ Clock_read_running(clock, now) = Clock_read_running(clock_pre, now)
           /\ clock.already_elapsed =
                 (IF clock_pre.already_elapsed >= DurationMax - clock_ghost.time
                  THEN DurationMax
                  ELSE clock_pre.already_elapsed + clock_ghost.time)

\* add() on a clock that has run for some time and whose banked time is so
\* close to the maximum that the sum saturates
C27_Witness ==
    /\ op = "add"
    /\ IsRunning(clock_pre)
    /\ now > clock_pre.state.start
    /\ clock_ghost.time > 0
    /\ clock_pre.already_elapsed < DurationMax
    /\ clock_pre.already_elapsed > DurationMax - clock_ghost.time
    /\ clock.already_elapsed = DurationMax
    /\ clock.state = clock_pre.state

(***************************************************************************)
(* C28: in every reachable state the inactive player's clock is not        *)
(* Running: only the clock of active_player() can be Running.              *)
(***************************************************************************)
C28_InactiveNotRunning == ~IsRunning(clocks[index(other(state))])

\* time passes on the running clock of the player who did not start the
\* game, so after a handover
C28_Witness ==
    /\ op = "tick"
    /\ state # rules.starter
    /\ IsRunning(clocks[index(state)])
    /\ Remaining(index(state)) < PreRemaining(index(state))
    /\ clocks[index(other(state))].state = Stopped

(***************************************************************************)
(* C29: once a player's remaining time has been read as exactly zero, it   *)
(* is zero after every subsequent operation and passage of time, under     *)
(* both timing methods: switch_player() on a running clock that has        *)
(* reached zero adds no increment.                                         *)
(***************************************************************************)
C29_ZeroStaysZero ==
    \A i \in {0, 1} : PreRemaining(i) = 0 => Remaining(i) = 0

\* switch_player() with an increment to add, called when the active
\* player's running clock had run out
C29_Witness ==
    /\ op = "switch_player"
    /\ IsRunning(pre.clocks[Outgoing])
    /\ pre.clocks[Outgoing].already_elapsed > 0
    /\ PreRemaining(Outgoing) = 0
    /\ rules.increment > 0
    /\ Remaining(Outgoing) = 0

(***************************************************************************)
(* C30: a player's remaining time increases only in a switch_player()      *)
(* taken while that player's clock is Running, and then by at most the     *)
(* increment; every other operation and the passage of time leave each     *)
(* remaining time unchanged or smaller.                                    *)
(***************************************************************************)
C30_IncreaseOnlyInSwitch ==
    \A i \in {0, 1} :
        Remaining(i) > PreRemaining(i)
            => /\ op = "switch_player"
               /\ IsRunning(pre.clocks[i])
               /\ Remaining(i) - PreRemaining(i) <= rules.increment

\* a switch that adds the whole increment to the outgoing player and
\* nothing to the incoming one
C30_Witness ==
    /\ op = "switch_player"
    /\ IsRunning(pre.clocks[Outgoing])
    /\ rules.increment > 0
    /\ Remaining(Outgoing) - PreRemaining(Outgoing) = rules.increment
    /\ Remaining(Incoming) = PreRemaining(Incoming)

(***************************************************************************)
(* C31: while a player is not the active player, that player's remaining   *)
(* time does not change: it is constant over the passage of time and over  *)
(* start(), stop() and update() calls.                                     *)
(***************************************************************************)
C31_InactiveTimeConstant ==
    op \in {"tick", "start", "stop", "update"}
        => /\ state = pre.state
           /\ Remaining(index(other(state))) = PreRemaining(index(other(state)))

\* time passes on the active player's running clock while the inactive
\* player, who has used time before, keeps the time they had
C31_Witness ==
    /\ op = "tick"
    /\ IsRunning(clocks[index(state)])
    /\ Remaining(index(state)) < PreRemaining(index(state))
    /\ Remaining(index(other(state))) <
          (IF state = Player1 THEN rules.player2_time ELSE rules.player1_time)
    /\ Remaining(index(other(state))) > 0

(***************************************************************************)
(* C32: update() is observationally neutral: status(), read() and          *)
(* active_player() return the same values right before and right after     *)
(* it, and update() applied twice at one instant equals update() applied   *)
(* once.                                                                   *)
(***************************************************************************)
C32_UpdateIsNeutral ==
    op = "update"
        => /\ Status = PreStatus
           /\ ChessClock_read(clocks, now) = ChessClock_read(pre.clocks, pre.now)
           /\ state = pre.state
           /\ ChessClock_update(clocks, now) = clocks

\* an update() that normalised a running clock that had run out
C32_Witness ==
    /\ op = "update"
    /\ IsRunning(pre.clocks[Outgoing])
    /\ pre.clocks[Outgoing].already_elapsed > 0
    /\ PreRemaining(Outgoing) = 0
    /\ clocks[Outgoing].state = Stopped
    /\ clocks # pre.clocks

(***************************************************************************)
(* C33: the two clocks of a ChessClock are either both Finished or neither *)
(* is, in every reachable state.                                           *)
(***************************************************************************)
C33_BothFinishedOrNeither ==
    (clocks[0].state = Finished) <=> (clocks[1].state = Finished)

\* finish() called with one clock running and the other stopped
C33_Witness ==
    /\ op = "finish"
    /\ IsRunning(pre.clocks[Outgoing])
    /\ pre.clocks[Incoming].state = Stopped
    /\ clocks[0].state = Finished
    /\ clocks[1].state = Finished

(***************************************************************************)
(* C34: if the active player's clock is Running and from then on no        *)
(* command is issued while time keeps advancing, status() eventually       *)
(* returns Finished, so that the loop `while status() != Finished` of the  *)
(* CLI terminates, update() never being called.                            *)
(***************************************************************************)
C34_CliLoopTerminates ==
    (IsRunning(clocks[index(state)]) /\ op \notin ChessKeyPressed)
        ~> (op = "done" \/ op \in ChessKeyPressed)

\* the loop has ended on the time of a clock that started with a whole
\* second or more and still is Running: nothing called update() or finish()
C34_Witness ==
    /\ op = "done"
    /\ ~finish_called
    /\ IsRunning(clocks[index(state)])
    /\ clocks[index(state)].already_elapsed >= TicksPerSec
    /\ ChessClock_status(clocks, now) = "Finished"

====
